---- MODULE Spec2Model ----
(***************************************************************************)
(* HospGym (src/simpy_envs/env_simple_hospital_bed_1.py): a SimPy hospital *)
(* simulation behind a gym-like reset()/step(action) interface.            *)
(*                                                                         *)
(* Time is counted in ticks of half the 0.001-day offset that              *)
(* _adjust_bed_numbers subtracts from the maturation delay, so that        *)
(* instants strictly between d - 0.001 and d exist in the model.           *)
(*                                                                         *)
(* The SimPy kernel is modelled as the library behaves: the event queue is *)
(* ordered by (time, priority, eid); env.process() schedules an URGENT     *)
(* Initialize event at the current time; env.timeout() schedules a NORMAL  *)
(* event; env.run(until=t) schedules an URGENT stop event at t and fires   *)
(* events one at a time until that stop event is the one fired.  The event *)
(* SimPy schedules when a process ends has no callback in this program and *)
(* fires within the same run without effect; it is left out of the queue.  *)
(*                                                                         *)
(* Arithmetic is exact: the rounding of floating-point sums and products   *)
(* is not modelled.                                                        *)
(***************************************************************************)
EXTENDS Integers, Sequences, FiniteSets

VARIABLES
    cfg,             \* constructor arguments kept as attributes
    state,           \* self.state
    next_time_stop,  \* self.next_time_stop
    ready,           \* self.env exists (reset() has been called)
    now,             \* self.env.now
    queue,           \* the events scheduled in self.env
    eid,             \* self.env's event counter
    pc,              \* "idle": control is with the caller; "run": inside env.run
    call,            \* the latest call of reset()/step() and the error it raised
    ret,             \* what reset()/step() last returned to the caller
    admitted,        \* inter-arrival gaps sampled in this episode
    requests,        \* non-no-op actions issued in this episode
    lastReq,         \* the latest non-no-op request of this episode
    lastMature,      \* the latest maturation of a bed-change request
    counts,          \* this episode: legal steps, bed changes asked for, maturations
    hist             \* samples and results of this episode and the one before

vars == <<cfg, state, next_time_stop, ready, now, queue, eid, pc, call, ret,
          admitted, requests, lastReq, lastMature, counts, hist>>

----------------------------------------------------------------------------
(* Time *)

Eps == 2
Day == 1000 * Eps

\* Bounds of the model
MaxSteps == 10
MaxRequests == 2
MaxAdmissions == 1
ReplaySteps == 2

URGENT == 0
NORMAL == 1

\* a due time no episode of the model reaches
Far == (MaxSteps + 2) * 4 * Day

Abs(x) == IF x < 0 THEN -x ELSE x

Max(a, b) == IF a > b THEN a ELSE b

\* Python int() of a quotient: truncation toward zero
Trunc(n, d) == IF n >= 0 THEN n \div d ELSE -((-n) \div d)

\* int(self.env.now % 7), with now in ticks
Weekday(t) == (t % (7 * Day)) \div Day

----------------------------------------------------------------------------
(* Constructor arguments *)

Configs ==
    { [arrivals_per_day |-> 1, los |-> 2, delay_to_change_beds |-> 2 * Day,
       time_step |-> Day, sim_duration |-> 3 * Day, reserve_num |-> 1, reserve_den |-> 20],
      [arrivals_per_day |-> 2, los |-> 1, delay_to_change_beds |-> 0,
       time_step |-> Day, sim_duration |-> 2 * Day, reserve_num |-> 1, reserve_den |-> 2],
      [arrivals_per_day |-> 1, los |-> 1, delay_to_change_beds |-> Day,
       time_step |-> Day - 1, sim_duration |-> 2 * Day, reserve_num |-> 1, reserve_den |-> 20],
      [arrivals_per_day |-> 3, los |-> 1, delay_to_change_beds |-> 3 * Day + Eps,
       time_step |-> 3 * Day, sim_duration |-> 7 * Day, reserve_num |-> 1, reserve_den |-> 2] }

actions == {0, 1, 2, 3, 4}

\* arguments of step outside the list
InvalidActions == {5, 7}

\* random.expovariate() for the inter-arrival gap; arrivals_by_day only sets
\* the mean of the distribution the gap is drawn from
GapSamples == {Day \div 2, Day}

\* random.expovariate() for the length of stay
LosSamples == {Day, 3 * Day}

\* random.random(), in halves
UniformHalves == {0, 1}

ZeroState ==
    [weekday |-> 0, beds |-> 0, patients |-> 0, spare_beds |-> 0, pending_bed_change |-> 0]

NoReq == [action |-> 2, t |-> 0, beds0 |-> 0, pend0 |-> 0, clean |-> FALSE, live |-> FALSE]

NoMature == [action |-> 2, pre |-> 0, post |-> 0, dirty |-> FALSE, moved |-> FALSE, live |-> FALSE]

NoRet == [kind |-> "none", obs |-> <<>>, reward |-> 0, terminal |-> FALSE]

NoCall == [op |-> "none", action |-> 2, prior |-> 0, dropped |-> {}, error |-> "none"]

ZeroCounts == [steps |-> 0, asked |-> 0, matured |-> 0]

NoHist == [mode |-> "off", log |-> <<>>, trace |-> <<>>, prevLog |-> <<>>, prevTrace |-> <<>>]

----------------------------------------------------------------------------
(* The event queue *)

\* the queue ordered by priority before time
BeforeByPriority(e, f) ==
    \/ e.prio < f.prio
    \/ e.prio = f.prio /\ e.time < f.time
    \/ e.prio = f.prio /\ e.time = f.time /\ e.eid < f.eid

\* the order of the queue: time, then priority, then order of scheduling
Before(e, f) ==
    \/ e.time < f.time
    \/ e.time = f.time /\ e.prio < f.prio
    \/ e.time = f.time /\ e.prio = f.prio /\ e.eid < f.eid

NextEvent == CHOOSE e \in queue : \A f \in queue \ {e} : Before(e, f)

\* an event of the queue; pre, dirty and moved are kept for the bed-change
\* requests: pending_bed_change before the step that issued the request, and
\* whether another non-no-op request was issued, or matured, since; stale marks
\* an event that was scheduled on an environment reset() has replaced
Event(t, prio, id, kind, proc, arg) ==
    [time |-> t, prio |-> prio, eid |-> id, kind |-> kind, proc |-> proc, arg |-> arg,
     pre |-> 0, dirty |-> FALSE, moved |-> FALSE, stale |-> FALSE]

IsBedTimeout(e) == e.kind = "Timeout" /\ e.proc = "adjust_bed_numbers"

----------------------------------------------------------------------------
(* Samples: drawn afresh, or read back from the previous episode's log *)

Replaying == hist.mode = "replay"

Recorded == IF Len(hist.log) < Len(hist.prevLog)
            THEN {hist.prevLog[Len(hist.log) + 1]}
            ELSE {}

Recorded2 == IF Len(hist.log) + 1 < Len(hist.prevLog)
             THEN {hist.prevLog[Len(hist.log) + 2]}
             ELSE {}

\* the gap sampled by _new_admission; beyond MaxAdmissions gaps the next
\* arrival falls after the end of every episode of the model
GapChoices == IF Replaying THEN Recorded
              ELSE IF admitted < MaxAdmissions THEN GapSamples ELSE {Far}

LosChoices == IF Replaying THEN Recorded ELSE LosSamples

UniformChoices == IF Replaying THEN Recorded2 ELSE UniformHalves

\* the steps an episode may take: fewer when samples and results are kept
StepLimit == IF hist.mode = "off" THEN MaxSteps ELSE ReplaySteps

Logged(h, draws) == IF h.mode = "off" THEN h ELSE [h EXCEPT !.log = @ \o draws]

Traced(h, entry) == IF h.mode = "off" THEN h ELSE [h EXCEPT !.trace = Append(@, entry)]

----------------------------------------------------------------------------
(* HospGym's methods on the state dictionary *)

\* _islegal letting the first value past the list through
IsLegalOffByOne(action) == action \in actions \cup {5}

\* _islegal
IsLegal(action) == action \in actions

\* _adjust_pending_bed_change with the signs of the table inverted
AdjustPendingBedChangeInverted(st, action, t) ==
    [st EXCEPT !.weekday = Weekday(t),
               !.pending_bed_change =
                    IF action = 0 THEN @ + 20
                    ELSE IF action = 1 THEN @ + 10
                    ELSE IF action = 3 THEN @ - 10
                    ELSE IF action = 4 THEN @ - 20
                    ELSE @]

\* _adjust_pending_bed_change with the amounts of the docstring of step
AdjustPendingBedChangeDocstring(st, action, t) ==
    [st EXCEPT !.weekday = Weekday(t),
               !.pending_bed_change =
                    IF action = 0 THEN @ - 10
                    ELSE IF action = 1 THEN @ - 5
                    ELSE IF action = 3 THEN @ + 5
                    ELSE IF action = 4 THEN @ + 10
                    ELSE @]

\* _adjust_pending_bed_change at time t
AdjustPendingBedChange(st, action, t) ==
    [st EXCEPT !.weekday = Weekday(t),
               !.pending_bed_change =
                    IF action = 0 THEN @ - 20
                    ELSE IF action = 1 THEN @ - 10
                    ELSE IF action = 3 THEN @ + 10
                    ELSE IF action = 4 THEN @ + 20
                    ELSE @]

\* _adjust_bed_numbers, before the timeout
AdjustBedNumbersStart(st) == [st EXCEPT !.spare_beds = st.beds - st.patients]

\* the delay without the 0.001 taken off
BedDelayWhole == Max(cfg.delay_to_change_beds, 0)

\* the delay never shorter than a time step
BedDelayAtLeastStep == Max(cfg.delay_to_change_beds - Eps, cfg.time_step)

\* the delay _adjust_bed_numbers waits for
BedDelay == Max(cfg.delay_to_change_beds - Eps, 0)

\* the amounts of the docstring of step: 10 and 5 in place of 20 and 10
BedChangeDocstring(action) ==
    IF action = 0 THEN -10
    ELSE IF action = 1 THEN -5
    ELSE IF action = 3 THEN 5
    ELSE IF action = 4 THEN 10
    ELSE 0

\* _adjust_bed_numbers: what the maturing action adds to beds
BedChange(action) ==
    IF action = 0 THEN -20
    ELSE IF action = 1 THEN -10
    ELSE IF action = 3 THEN 10
    ELSE IF action = 4 THEN 20
    ELSE 0

\* the pending tally of action 1 cancelled with the amount of action 0
PendingChangeCopied(action) ==
    IF action = 0 THEN 20
    ELSE IF action = 1 THEN 20
    ELSE IF action = 3 THEN -10
    ELSE IF action = 4 THEN -20
    ELSE 0

\* _adjust_bed_numbers: what the maturing action adds to pending_bed_change
PendingChange(action) ==
    IF action = 0 THEN 20
    ELSE IF action = 1 THEN 10
    ELSE IF action = 3 THEN -10
    ELSE IF action = 4 THEN -20
    ELSE 0

\* _adjust_bed_numbers without its last line
AdjustBedNumbersEndStale(st, action, t) ==
    [st EXCEPT !.weekday = Weekday(t),
               !.beds = @ + BedChange(action),
               !.pending_bed_change = @ + PendingChange(action)]

\* _adjust_bed_numbers, after the timeout, at time t
AdjustBedNumbersEnd(st, action, t) ==
    LET b == st.beds + BedChange(action)
    IN  [st EXCEPT !.weekday = Weekday(t),
                   !.beds = b,
                   !.pending_bed_change = @ + PendingChange(action),
                   !.spare_beds = b - st.patients]

\* _calculate_reward without the abs()
CalculateRewardSigned(st) ==
    LET target_spare_beds == Trunc(st.patients * cfg.reserve_num, cfg.reserve_den)
    IN  -(st.spare_beds - target_spare_beds)

\* _calculate_reward
CalculateReward(st) ==
    LET target_spare_beds == Trunc(st.patients * cfg.reserve_num, cfg.reserve_den)
        spare_beds_above_target == st.spare_beds - target_spare_beds
    IN  -Abs(spare_beds_above_target)

\* _get_observations without the weekday update
GetObservationsStale(st, t) == st

\* _get_observations at time t: the state dictionary it leaves
GetObservations(st, t) == [st EXCEPT !.weekday = Weekday(t)]

\* the list _get_observations returns
Observations(st) ==
    <<st.weekday, st.beds, st.patients, st.spare_beds, st.pending_bed_change>>

\* the terminal flag with a strict comparison
TerminalStrict(t) == t > cfg.sim_duration

\* the terminal flag of step at time t
Terminal(t) == t >= cfg.sim_duration

\* _load_patients: the state after the loop
LoadPatients(st) ==
    LET number_to_load == cfg.arrivals_per_day * cfg.los
    IN  [st EXCEPT !.beds = @ + number_to_load, !.patients = @ + number_to_load]

\* _load_patients starting one process fewer than the patients it counts
LoadedProcessesShort ==
    { Event(0, URGENT, i, "Initialize", "patient_spell", 1) :
        i \in 1 .. (cfg.arrivals_per_day * cfg.los - 1) }

\* _load_patients: the processes it starts, after the admission process
LoadedProcesses ==
    { Event(0, URGENT, i, "Initialize", "patient_spell", 1) :
        i \in 1 .. (cfg.arrivals_per_day * cfg.los) }

\* reset leaving the patients of the episode before in the dictionary
ResetStateKeepsPatients(st) == [ZeroState EXCEPT !.patients = st.patients]

\* reset: the state dictionary before _load_patients
ResetState(st) == ZeroState

\* reset going on with the environment of the episode before
ResetQueueKept(q) == q

\* reset: what self.env = simpy.Environment() leaves scheduled of the events q
\* of the environment before
ResetQueue(q) == {}

\* reset leaving self.next_time_stop as it was
ResetTimeStopKept(stop) == stop

\* reset: self.next_time_stop
ResetTimeStop(stop) == 0

\* _new_admission not counting the patient it admits
NewAdmissionStateNoCount(st, t) ==
    [st EXCEPT !.spare_beds = st.beds - st.patients,
               !.weekday = Weekday(t)]

\* _new_admission, one pass of the loop at time t, up to the sampling
NewAdmissionState(st, t) ==
    [st EXCEPT !.patients = @ + 1,
               !.spare_beds = st.beds - (st.patients + 1),
               !.weekday = Weekday(t)]

\* _patient_spell, after the timeout, at time t
PatientSpellEnd(st, t) ==
    [st EXCEPT !.weekday = Weekday(t),
               !.patients = @ - 1,
               !.spare_beds = st.beds - (st.patients - 1)]

----------------------------------------------------------------------------
(* The interface *)

Init ==
    /\ cfg \in Configs
    /\ state = ZeroState
    /\ next_time_stop = 0
    /\ ready = FALSE
    /\ now = 0
    /\ queue = {}
    /\ eid = 0
    /\ pc = "idle"
    /\ call = NoCall
    /\ ret = NoRet
    /\ admitted = 0
    /\ requests = 0
    /\ lastReq = NoReq
    /\ lastMature = NoMature
    /\ counts = ZeroCounts
    /\ hist = NoHist

\* reset()
Reset ==
    /\ pc = "idle"
    /\ ~Replaying
    /\ LET st == GetObservations(LoadPatients(ResetState(state)), 0)
           entry == [action |-> -1, obs |-> Observations(st), reward |-> 0,
                     terminal |-> FALSE]
       IN  /\ state' = st
           /\ ret' = [kind |-> "reset", obs |-> Observations(st), reward |-> 0,
                      terminal |-> FALSE]
           /\ hist' = IF hist.mode = "off" THEN hist
                      ELSE IF ready
                      THEN [mode |-> "replay", log |-> <<>>, trace |-> <<entry>>,
                            prevLog |-> hist.log, prevTrace |-> hist.trace]
                      ELSE [hist EXCEPT !.log = <<>>, !.trace = <<entry>>]
    /\ call' = [op |-> "reset", action |-> 2, prior |-> next_time_stop,
                dropped |-> {<<e.proc, e.arg>> : e \in {f \in queue : f.kind = "Timeout"}},
                error |-> "none"]
    /\ ready' = TRUE
    /\ now' = 0
    /\ next_time_stop' = ResetTimeStop(next_time_stop)
    /\ queue' = { [e EXCEPT !.stale = TRUE] : e \in ResetQueue(queue) }
                    \cup {Event(0, URGENT, 0, "Initialize", "new_admission", 0)}
                    \cup LoadedProcesses
    /\ eid' = cfg.arrivals_per_day * cfg.los + 1
    /\ admitted' = 0
    /\ requests' = 0
    /\ lastReq' = NoReq
    /\ lastMature' = NoMature
    /\ counts' = ZeroCounts
    /\ UNCHANGED <<cfg, pc>>

\* the actions step may be called with
StepChoices ==
    IF Replaying
    THEN IF Len(hist.trace) < Len(hist.prevTrace)
         THEN {hist.prevTrace[Len(hist.trace) + 1].action}
         ELSE {}
    ELSE {a \in actions : a = 2 \/ requests < MaxRequests}
            \cup (IF hist.mode = "off" THEN InvalidActions ELSE {})

\* step(action) with nothing to run it on: _islegal raises ValueError for an
\* illegal action, and before the first reset() self.env does not exist
StepRaises(action, error) ==
    /\ call' = [op |-> "step", action |-> action, prior |-> 0, dropped |-> {},
                error |-> error]
    /\ UNCHANGED <<cfg, state, next_time_stop, ready, now, queue, eid, pc, ret,
                   admitted, requests, lastReq, lastMature, counts, hist>>

\* step(action) with a legal action, up to the entry into env.run
StepRuns(action) ==
    /\ next_time_stop < StepLimit * cfg.time_step
    /\ call' = [op |-> "step", action |-> action, prior |-> 0, dropped |-> {},
                error |-> "none"]
    /\ state' = AdjustPendingBedChange(state, action, now)
    /\ next_time_stop' = next_time_stop + cfg.time_step
    /\ queue' = { IF IsBedTimeout(e) /\ action # 2 THEN [e EXCEPT !.dirty = TRUE] ELSE e :
                    e \in queue }
                \cup { [Event(now, URGENT, eid, "Initialize", "adjust_bed_numbers", action)
                            EXCEPT !.pre = state.pending_bed_change],
                       Event(next_time_stop + cfg.time_step, URGENT, eid + 1,
                             "Until", "run", action) }
    /\ eid' = eid + 2
    /\ pc' = "run"
    /\ requests' = IF action = 2 THEN requests ELSE requests + 1
    /\ lastReq' = IF action = 2 THEN lastReq
                  ELSE [action |-> action, t |-> now, beds0 |-> state.beds,
                        pend0 |-> state.pending_bed_change,
                        clean |-> \A e \in queue : IsBedTimeout(e) => e.arg = 2,
                        live |-> TRUE]
    /\ counts' = [counts EXCEPT !.steps = @ + 1, !.asked = @ + (action - 2) * 10]
    /\ UNCHANGED <<cfg, ready, now, ret, admitted, lastMature, hist>>

\* step(action)
Step(action) ==
    /\ pc = "idle"
    /\ IF ~IsLegal(action) THEN StepRaises(action, "ValueError")
       ELSE IF ~ready THEN StepRaises(action, "AttributeError")
       ELSE StepRuns(action)

----------------------------------------------------------------------------
(* Inside env.run: one event fired per action *)

Running == pc = "run" /\ queue # {}

\* _new_admission without its loop: one admission and the process ends
NewAdmissionOnce ==
    /\ Running
    /\ LET e == NextEvent
       IN  /\ e.proc = "new_admission"
           /\ \E gap \in GapChoices :
                /\ queue' = (queue \ {e}) \cup
                        { Event(e.time, URGENT, eid, "Initialize", "patient_spell", 0) }
                /\ hist' = Logged(hist, <<gap>>)
           /\ now' = e.time
           /\ state' = NewAdmissionState(state, e.time)
    /\ eid' = eid + 2
    /\ admitted' = admitted + 1
    /\ UNCHANGED <<cfg, next_time_stop, ready, pc, call, ret, requests, lastReq, lastMature,
                   counts>>

\* _new_admission: started or resumed, one pass of its loop
NewAdmission ==
    /\ Running
    /\ LET e == NextEvent
       IN  /\ e.proc = "new_admission"
           /\ \E gap \in GapChoices :
                /\ queue' = (queue \ {e}) \cup
                        { Event(e.time, URGENT, eid, "Initialize", "patient_spell", 0),
                          Event(e.time + gap, NORMAL, eid + 1, "Timeout",
                                "new_admission", 0) }
                /\ hist' = Logged(hist, <<gap>>)
           /\ now' = e.time
           /\ state' = NewAdmissionState(state, e.time)
    /\ eid' = eid + 2
    /\ admitted' = admitted + 1
    /\ UNCHANGED <<cfg, next_time_stop, ready, pc, call, ret, requests, lastReq, lastMature,
                   counts>>

\* _patient_spell: started, up to its timeout
PatientSpellStart ==
    /\ Running
    /\ LET e == NextEvent
       IN  /\ e.proc = "patient_spell"
           /\ e.kind = "Initialize"
           /\ \E los \in LosChoices :
                \/ /\ e.arg = 0
                   /\ queue' = (queue \ {e}) \cup
                        {Event(e.time + los, NORMAL, eid, "Timeout", "patient_spell", 0)}
                   /\ hist' = Logged(hist, <<los>>)
                \/ /\ e.arg = 1
                   /\ \E u \in UniformChoices :
                        /\ queue' = (queue \ {e}) \cup
                             {Event(e.time + (los * u) \div 2, NORMAL, eid, "Timeout",
                                    "patient_spell", 1)}
                        /\ hist' = Logged(hist, <<los, u>>)
           /\ now' = e.time
    /\ eid' = eid + 1
    /\ UNCHANGED <<cfg, state, next_time_stop, ready, pc, call, ret, admitted, requests,
                   lastReq, lastMature, counts>>

\* _patient_spell: resumed, the patient leaves
PatientSpellLeave ==
    /\ Running
    /\ LET e == NextEvent
       IN  /\ e.proc = "patient_spell"
           /\ e.kind = "Timeout"
           /\ queue' = queue \ {e}
           /\ now' = e.time
           /\ state' = PatientSpellEnd(state, e.time)
    /\ UNCHANGED <<cfg, next_time_stop, ready, eid, pc, call, ret, admitted, requests,
                   lastReq, lastMature, counts, hist>>

\* _adjust_bed_numbers: started, up to its timeout
AdjustBedNumbersWait ==
    /\ Running
    /\ LET e == NextEvent
       IN  /\ e.proc = "adjust_bed_numbers"
           /\ e.kind = "Initialize"
           /\ queue' = (queue \ {e}) \cup
                 {[e EXCEPT !.time = e.time + BedDelay, !.prio = NORMAL, !.eid = eid,
                            !.kind = "Timeout"]}
           /\ now' = e.time
           /\ state' = AdjustBedNumbersStart(state)
    /\ eid' = eid + 1
    /\ UNCHANGED <<cfg, next_time_stop, ready, pc, call, ret, admitted, requests,
                   lastReq, lastMature, counts, hist>>

\* _adjust_bed_numbers: resumed, the bed numbers change
AdjustBedNumbersApply ==
    /\ Running
    /\ LET e == NextEvent
           st == AdjustBedNumbersEnd(state, e.arg, e.time)
       IN  /\ IsBedTimeout(e)
           /\ queue' = { IF IsBedTimeout(f) /\ e.arg # 2 THEN [f EXCEPT !.moved = TRUE] ELSE f :
                            f \in queue \ {e} }
           /\ now' = e.time
           /\ state' = st
           /\ lastMature' = [action |-> e.arg, pre |-> e.pre,
                             post |-> st.pending_bed_change,
                             dirty |-> e.dirty, moved |-> e.moved, live |-> TRUE]
    /\ counts' = [counts EXCEPT !.matured = @ + 1]
    /\ UNCHANGED <<cfg, next_time_stop, ready, eid, pc, call, ret, admitted, requests,
                   lastReq, hist>>

\* env.run returning with the clock at the last event it fired
StepReturnNoAdvance ==
    /\ Running
    /\ LET e == NextEvent
           st == GetObservations(state, now)
           result == [obs |-> Observations(st), reward |-> CalculateReward(st),
                      terminal |-> Terminal(now)]
       IN  /\ e.kind = "Until"
           /\ queue' = queue \ {e}
           /\ state' = st
           /\ ret' = [kind |-> "step", obs |-> result.obs, reward |-> result.reward,
                      terminal |-> result.terminal]
           /\ hist' = Traced(hist, [action |-> e.arg, obs |-> result.obs,
                                    reward |-> result.reward,
                                    terminal |-> result.terminal])
    /\ pc' = "idle"
    /\ UNCHANGED <<cfg, next_time_stop, ready, now, eid, call, admitted, requests, lastReq,
                   lastMature, counts>>

\* env.run reaches its stop event: step builds and returns its result
StepReturn ==
    /\ Running
    /\ LET e == NextEvent
           st == GetObservations(state, e.time)
           result == [obs |-> Observations(st), reward |-> CalculateReward(st),
                      terminal |-> Terminal(e.time)]
       IN  /\ e.kind = "Until"
           /\ queue' = queue \ {e}
           /\ now' = e.time
           /\ state' = st
           /\ ret' = [kind |-> "step", obs |-> result.obs, reward |-> result.reward,
                      terminal |-> result.terminal]
           /\ hist' = Traced(hist, [action |-> e.arg, obs |-> result.obs,
                                    reward |-> result.reward,
                                    terminal |-> result.terminal])
    /\ pc' = "idle"
    /\ UNCHANGED <<cfg, next_time_stop, ready, eid, call, admitted, requests, lastReq,
                   lastMature, counts>>

StepAny == \E action \in StepChoices : Step(action)

Next ==
    \/ Reset
    \/ StepAny
    \/ NewAdmission
    \/ PatientSpellStart
    \/ PatientSpellLeave
    \/ AdjustBedNumbersWait
    \/ AdjustBedNumbersApply
    \/ StepReturn

Spec == Init /\ [][Next]_vars

\* Two episodes in a row, the second given the samples and the actions of the
\* first
InitReplay ==
    /\ cfg \in {c \in Configs : c.arrivals_per_day * c.los = 1}
    /\ state = ZeroState
    /\ next_time_stop = 0
    /\ ready = FALSE
    /\ now = 0
    /\ queue = {}
    /\ eid = 0
    /\ pc = "idle"
    /\ call = NoCall
    /\ ret = NoRet
    /\ admitted = 0
    /\ requests = 0
    /\ lastReq = NoReq
    /\ lastMature = NoMature
    /\ counts = ZeroCounts
    /\ hist = [NoHist EXCEPT !.mode = "record"]

SpecReplay == InitReplay /\ [][Next]_vars

----------------------------------------------------------------------------
(* Properties *)

\* an observation has just been returned and control is with the caller
Observed == pc = "idle" /\ ret.kind \in {"reset", "step"}

StepObserved == pc = "idle" /\ ret.kind = "step"

NumberToLoad == cfg.arrivals_per_day * cfg.los

\* C1: in every observation returned by reset() or step(), spare_beds equals
\* beds minus patients.
C1_SpareBeds == Observed => ret.obs[4] = ret.obs[2] - ret.obs[3]

\* C1 witness: a step returned after a bed change matured, with beds and
\* patients different.
C1_Witness ==
    /\ StepObserved
    /\ lastMature.live /\ lastMature.action # 2
    /\ ret.obs[2] # ret.obs[3]
    /\ ret.obs[3] # NumberToLoad

\* C2: a call step(a) with a outside {0,1,2,3,4} raises and leaves the state
\* dictionary, next_time_stop, the clock and the scheduled events as they were,
\* so that whatever is called next starts from the state before the call.
C2_InvalidAction ==
    [][ (pc = "idle" /\ call'.op = "step" /\ call'.action \notin 0 .. 4)
            => /\ call'.error = "ValueError"
               /\ UNCHANGED <<cfg, state, next_time_stop, ready, now, queue, eid, pc, ret>>
      ]_vars

\* C2 witness: an illegal action was refused in the middle of an episode, with
\* a bed change pending and events scheduled.
C2_Witness ==
    /\ pc = "idle"
    /\ call.op = "step" /\ call.action = 7 /\ call.error = "ValueError"
    /\ ret.kind = "step"
    /\ state.pending_bed_change # 0
    /\ queue # {}

\* C3: the observation reset() returns is [0, n, n, 0, 0] with
\* n = arrivals_per_day * los, whatever calls came before.
C3_ResetObservation ==
    (pc = "idle" /\ ret.kind = "reset")
        => ret.obs = <<0, NumberToLoad, NumberToLoad, 0, 0>>

\* C3 witness: reset() returned after an episode in which steps were taken.
C3_Witness ==
    /\ pc = "idle" /\ ret.kind = "reset"
    /\ call.op = "reset" /\ call.prior > 0

\* the scenario of C4: delay 2 days, time step 1 day, action 4 issued by the
\* first step of the episode and only no-ops since; k counts the steps
C4_Scenario ==
    /\ StepObserved
    /\ cfg.delay_to_change_beds = 2 * Day /\ cfg.time_step = Day
    /\ lastReq.live /\ lastReq.action = 4 /\ lastReq.t = 0

C4_k == now \div Day

\* C4 as claimed: pending_bed_change is -20 in the first two observations and
\* 0 from the third, by which beds is 20 above its reset value.
C4_Claimed ==
    C4_Scenario =>
        /\ C4_k <= 2 => ret.obs[5] = -20
        /\ C4_k >= 3 => ret.obs[5] = 0 /\ ret.obs[2] = NumberToLoad + 20

\* C4 amended: pending_bed_change is +20 in the first observation only and 0
\* from the second, from which beds is 20 above its reset value.
C4_Amended ==
    C4_Scenario =>
        /\ C4_k = 1 => ret.obs[5] = 20 /\ ret.obs[2] = NumberToLoad
        /\ C4_k >= 2 => ret.obs[5] = 0 /\ ret.obs[2] = NumberToLoad + 20

\* C4 witness: the tenth observation of the scenario.
C4_Witness == C4_Scenario /\ C4_k = 10 /\ ret.obs[5] = 0

\* the case of C5: action 0 was issued at lastReq.t with no other bed change
\* outstanding, and only no-ops have been issued since
C5_Case == StepObserved /\ lastReq.live /\ lastReq.action = 0 /\ lastReq.clean

\* C5 as claimed: pending_bed_change reads +20 in the observations before
\* t + d, and 0 in those at or after t + d, where beds is lower by 20.
C5_Claimed ==
    C5_Case =>
        /\ now < lastReq.t + cfg.delay_to_change_beds => ret.obs[5] = 20
        /\ now >= lastReq.t + cfg.delay_to_change_beds
              => ret.obs[5] = 0 /\ ret.obs[2] = lastReq.beds0 - 20

\* the time at which the request of lastReq matures
C5_Due == lastReq.t + Max(cfg.delay_to_change_beds - Eps, 0)

\* C5 amended: pending_bed_change reads -20 in the observations taken at a
\* time up to t + max(d - 0.001, 0), where beds is as before the request, and 0
\* in those taken later, where beds is lower by 20.
C5_Amended ==
    C5_Case =>
        /\ now <= C5_Due => ret.obs[5] = -20 /\ ret.obs[2] = lastReq.beds0
        /\ now > C5_Due => ret.obs[5] = 0 /\ ret.obs[2] = lastReq.beds0 - 20

\* C5 witness: an observation taken before t + d in which the request has
\* matured already.
C5_Witness ==
    /\ C5_Case
    /\ now < lastReq.t + cfg.delay_to_change_beds
    /\ ret.obs[5] = 0 /\ ret.obs[2] = lastReq.beds0 - 20

\* C6: step returns terminal exactly when the clock is at or past
\* sim_duration, and a step returning after a terminal one is terminal too.
C6_Terminal ==
    [][ (pc' = "idle" /\ ret'.kind = "step")
            => /\ ret'.terminal <=> now' >= cfg.sim_duration
               /\ (ret.kind = "step" /\ ret.terminal) => ret'.terminal
      ]_vars

\* C6 witness: a step was accepted after a terminal step and returned terminal.
C6_Witness ==
    /\ StepObserved /\ ret.terminal
    /\ now >= cfg.sim_duration + cfg.time_step

\* C7: in every observation, weekday is floor(clock) mod 7.
C7_Weekday == Observed => ret.obs[1] = (now \div Day) % 7

\* C7 witness: an observation in the second week.
C7_Witness == StepObserved /\ now >= 8 * Day /\ ret.obs[1] = 1

\* floor(patients * target_reserve)
C8_Target == (ret.obs[3] * cfg.reserve_num) \div cfg.reserve_den

\* C8: the reward of a step is at most 0, and 0 only when the spare beds of
\* the observation equal floor(patients * target_reserve).
C8_Reward ==
    StepObserved =>
        /\ ret.reward <= 0
        /\ ret.reward = 0 => ret.obs[4] = C8_Target

\* C8 witness: a reward of 0 with a target above 0.
C8_Witness == StepObserved /\ ret.reward = 0 /\ C8_Target > 0

\* C9: an episode given the samples of the episode before, in the same order,
\* and the same actions returns the same initial observation and the same
\* observation, reward and terminal flag at every step.
C9_Reproducible ==
    Replaying =>
        \A k \in 1 .. Len(hist.trace) :
            /\ k <= Len(hist.prevTrace)
            /\ hist.trace[k] = hist.prevTrace[k]

\* C9 witness: the second episode has replayed all the steps of the first,
\* a bed change among them, and has used all its samples.
C9_Witness ==
    /\ Replaying /\ pc = "idle"
    /\ Len(hist.trace) = Len(hist.prevTrace)
    /\ Len(hist.trace) = ReplaySteps + 1
    /\ hist.log = hist.prevLog
    /\ \E k \in 1 .. Len(hist.trace) : hist.trace[k].action \in {0, 1, 3, 4}
    /\ hist.trace[Len(hist.trace)].obs[3] # NumberToLoad

\* C10 as claimed: when no other non-no-op request was issued between a request
\* and its maturation, pending_bed_change after the maturation is what it was
\* before the step that issued the request.
C10_Claimed ==
    (lastMature.live /\ ~lastMature.dirty) => lastMature.post = lastMature.pre

\* C10 amended: the same when, in addition, no other non-no-op request matured
\* between the request and its maturation.
C10_Amended ==
    (lastMature.live /\ ~lastMature.dirty /\ ~lastMature.moved)
        => lastMature.post = lastMature.pre

\* C10 witness: a non-no-op request matured undisturbed, issued while another
\* was outstanding.
C10_Witness ==
    /\ lastMature.live /\ ~lastMature.dirty /\ ~lastMature.moved
    /\ lastMature.action # 2
    /\ pc = "idle"

\* the bed-change processes of the episode that have not changed the beds yet
BedChangesDue == {e \in queue : e.proc = "adjust_bed_numbers"}

\* the bed delta of an action: -20, -10, 0, +10, +20
Delta(action) == (action - 2) * 10

\* env.run is about to resume a bed-change process from its timeout
Maturing == pc = "run" /\ IsBedTimeout(NextEvent)

\* reset() is being called
Resetting == pc = "idle" /\ call'.op = "reset"

C12_Claimed == state.beds >= 0

\* reset() has returned and no step has run since
ResetObserved == pc = "idle" /\ ret.kind = "reset"

\* C13 as claimed: when reset() returns, no event due at time 0 is still
\* pending.
C13_Claimed == ResetObserved => \A e \in queue : e.time > 0

\* C13 amended: reset() does not run the scheduler. When it returns, the
\* admission process and one process per loaded patient are scheduled at time 0
\* and none of them has run: no admission has been counted and no stay has
\* been sampled.
C13_Amended ==
    ResetObserved =>
        /\ now = 0
        /\ \A e \in queue : e.kind = "Initialize" /\ e.time = 0
        /\ Cardinality({e \in queue : e.proc = "new_admission"}) = 1
        /\ Cardinality({e \in queue : e.proc = "patient_spell" /\ e.arg = 1}) = NumberToLoad
        /\ Cardinality(queue) = NumberToLoad + 1
        /\ state.patients = NumberToLoad
        /\ admitted = 0

\* C13 witness: reset() has returned with several patients loaded, their
\* processes and the admission process still waiting to be started.
C13_Witness ==
    /\ ResetObserved
    /\ NumberToLoad >= 2
    /\ \E e \in queue : e.proc = "new_admission" /\ e.time = now
    /\ \E e \in queue : e.proc = "patient_spell" /\ e.time = now

\* C14: after reset() the clock is 0; after the k-th legal step of an episode
\* it is k * time_step, whatever was fired on the way; and the clock never
\* goes back within an episode.
C14_Clock ==
    /\ []((pc = "idle" /\ ready) => now = counts.steps * cfg.time_step)
    /\ [][Resetting \/ now' >= now]_vars

\* C14 witness: the third step or a later one has returned, with a time step
\* that is not one day, and the last event before the stop was fired earlier
\* than the stop.
C14_Witness ==
    /\ StepObserved
    /\ counts.steps >= 3
    /\ cfg.time_step # Day
    /\ now = counts.steps * cfg.time_step
    /\ \A e \in queue : e.time # now

\* C15 as claimed: when step returns with the clock at T, every event due at T
\* or before has been fired.
C15_Claimed == StepObserved => \A e \in queue : e.time > now

\* C15 amended: when step returns with the clock at T, every event due before
\* T has been fired, those scheduled during the step included; an event due
\* exactly at T is still pending, and is fired in the next step before the
\* clock moves on.
C15_Amended ==
    /\ [](StepObserved => \A e \in queue : e.time >= now)
    /\ [][now' > now => \A e \in queue : e.time > now]_vars

\* C15 witness: step has returned at T with an admission or a discharge due
\* exactly at T still pending, after events scheduled during the step were
\* fired in it.
C15_Witness ==
    /\ StepObserved
    /\ \E e \in queue : e.time = now /\ e.kind = "Timeout"
    /\ counts.steps = 1
    /\ state.patients < NumberToLoad + admitted

\* step is returning to its caller
Returning == pc = "run" /\ pc' = "idle"

\* C16: with delay_to_change_beds = 0 the bed change asked for by step(action)
\* is applied within that step: against the observation returned before, the
\* one it returns has beds changed by the delta of the action and the same
\* pending_bed_change.
C16_SameStep ==
    [][ (Returning /\ cfg.delay_to_change_beds = 0)
            => /\ ret'.obs[2] = ret.obs[2] + Delta(call.action)
               /\ ret'.obs[5] = ret.obs[5]
               /\ counts'.matured = counts'.steps
      ]_vars

\* C16 witness: with no delay, a second bed change was asked for and the step
\* has returned with it applied.
C16_Witness ==
    /\ StepObserved
    /\ cfg.delay_to_change_beds = 0
    /\ call.op = "step" /\ call.error = "none" /\ call.action # 2
    /\ counts.steps >= 2
    /\ requests = 2
    /\ lastMature.live /\ lastMature.action = call.action
    /\ ret.obs[2] = NumberToLoad + counts.asked
    /\ ret.obs[2] # NumberToLoad

\* C17: an event scheduled in one episode is never fired after the next
\* reset(): reset() leaves nothing scheduled but the processes it starts itself,
\* so the unmatured bed changes, the pending discharges and the admission
\* process of the episode before cannot touch the state of the new one.
C17_NoStaleEvent ==
    /\ [](\A e \in queue : ~e.stale /\ e.eid < eid)
    /\ [][ Resetting
            => /\ \A e \in queue' : e.kind = "Initialize" /\ e.time = 0 /\ e.eid <= NumberToLoad
               /\ Cardinality(queue') = NumberToLoad + 1
      ]_vars

\* C17 witness: reset() was called with a bed change unmatured, a discharge
\* pending and the admission process waiting, and has returned.
C17_Witness ==
    /\ pc = "idle" /\ call.op = "reset"
    /\ \E a \in actions \ {2} : <<"adjust_bed_numbers", a>> \in call.dropped
    /\ \E i \in {0, 1} : <<"patient_spell", i>> \in call.dropped
    /\ <<"new_admission", 0>> \in call.dropped
    /\ state.pending_bed_change = 0

\* the patient processes started and not yet through their discharge
PatientSpells == {e \in queue : e.proc = "patient_spell"}

\* C18: between events, patients is the number of patient processes that were
\* started, by the initial load or by an admission, and have not discharged
\* yet; so patients is never negative.
C18_Patients ==
    /\ state.patients = Cardinality(PatientSpells)
    /\ state.patients >= 0

\* C18 witness: after admissions and discharges, loaded and admitted patients
\* are in hospital together, and a patient has left.
C18_Witness ==
    /\ pc = "idle"
    /\ admitted >= 2
    /\ state.patients < NumberToLoad + admitted
    /\ \E e \in PatientSpells : e.arg = 0
    /\ \E e \in PatientSpells : e.arg = 1

\* the events the admission process of the episode waits for
AdmissionWakeUps == {e \in queue : e.proc = "new_admission"}

\* C19: from reset() on, whenever control is with the caller, the episode has
\* exactly one admission process, waiting for exactly one event; no step ends
\* it or starts another.
C19_OneAdmissionProcess ==
    /\ []((pc = "idle" /\ ready) => Cardinality(AdmissionWakeUps) = 1)
    /\ [][ (pc = "idle" /\ ~Resetting) => AdmissionWakeUps' = AdmissionWakeUps ]_vars

\* C19 witness: several steps have returned, the admission process has gone
\* round its loop more than once and waits for its next arrival.
C19_Witness ==
    /\ StepObserved
    /\ counts.steps >= 3
    /\ admitted >= 2
    /\ \E e \in AdmissionWakeUps : e.kind = "Timeout" /\ e.time > now

\* beds and the tally of the changes asked for and not yet made
BedsAndPending == state.beds + state.pending_bed_change

====
